---- MODULE Spec2Model ----
(***************************************************************************)
(* A model of node/Identity.cpp: the Identity object (type, fingerprint,   *)
(* public and private key blobs), its generation under the two proof of    *)
(* work functions, sign / verify / agree, and the textual and binary       *)
(* codecs.                                                                 *)
(*                                                                         *)
(* Memory is modelled byte by byte: a buffer is a sequence of numbers in   *)
(* 0..255 and the byte the code calls p[k] is element k + 1 of the         *)
(* sequence, so that every offset the code adds to m_pub, m_priv or data   *)
(* is an offset of the model.                                              *)
(*                                                                         *)
(* The primitives Identity.cpp calls but does not define (SHA-2, Salsa20,  *)
(* Poly1305, Curve25519/Ed25519, P-384, hex, base32, Address) are small    *)
(* stand-ins with the sizes and the algebra of the real ones: digests are  *)
(* deterministic and sensitive to every input byte, Diffie-Hellman is      *)
(* exponentiation in the group of units modulo 32749 on the little-endian  *)
(* value of the whole key, and a signature verifies exactly under the      *)
(* public key that belongs to the signing scalar.                          *)
(***************************************************************************)
EXTENDS Integers, Sequences, FiniteSets, TLC

(***************************************************************************)
(* Sizes                                                                   *)
(***************************************************************************)
ZT_ADDRESS_LENGTH == 5
ZT_C25519_ECDH_PUBLIC_KEY_SIZE == 32
ZT_C25519_ECDH_PRIVATE_KEY_SIZE == 32
ZT_C25519_COMBINED_PUBLIC_KEY_SIZE == 64
ZT_C25519_COMBINED_PRIVATE_KEY_SIZE == 64
ZT_C25519_ECDH_SHARED_SECRET_SIZE == 32
ZT_C25519_SIGNATURE_LEN == 96
ZT_ECC384_PUBLIC_KEY_SIZE == 49
ZT_ECC384_PRIVATE_KEY_SIZE == 48
ZT_ECC384_SIGNATURE_SIZE == 96
ZT_ECC384_SHARED_SECRET_SIZE == 48
ZT_SYMMETRIC_KEY_SIZE == 48
ZT_FINGERPRINT_HASH_SIZE == 48
ZT_SIGNATURE_BUFFER_SIZE == 96
ZT_IDENTITY_P384_COMPOUND_PUBLIC_KEY_SIZE ==
    1 + ZT_C25519_COMBINED_PUBLIC_KEY_SIZE + ZT_ECC384_PUBLIC_KEY_SIZE
ZT_IDENTITY_P384_COMPOUND_PRIVATE_KEY_SIZE ==
    1 + ZT_C25519_COMBINED_PRIVATE_KEY_SIZE + ZT_ECC384_PRIVATE_KEY_SIZE

\* enum Identity::Type
C25519 == 0
P384 == 1

(***************************************************************************)
(* Bytes and buffers                                                       *)
(***************************************************************************)
\* The sequence f[1], ..., f[n], evaluated.
Bytes(f, n) == SubSeq(f, 1, n)

Zeros(n) == Bytes([k \in 1..n |-> 0], n)

\* The len bytes at p + off.
Slice(p, off, len) == SubSeq(p, off + 1, off + len)

\* memcpy(p + off, src, Len(src))
Put(p, off, src) ==
    SubSeq(p, 1, off) \o src \o SubSeq(p, off + Len(src) + 1, Len(p))

\* Bitwise exclusive or of two numbers below 2^bits.
RECURSIVE XorBits(_, _, _)
XorBits(a, b, bits) ==
    IF bits = 0 THEN 0
    ELSE ((a + b) % 2) + 2 * XorBits(a \div 2, b \div 2, bits - 1)

XorNibble == [a \in 0..15 |-> [b \in 0..15 |-> XorBits(a, b, 4)]]

Xor8(a, b) == 16 * XorNibble[a \div 16][b \div 16] + XorNibble[a % 16][b % 16]

\* The value modulo m of the bytes of p read as a big-endian number.
RECURSIVE BigEndianMod(_, _, _, _)
BigEndianMod(p, k, acc, m) ==
    IF k > Len(p) \/ acc < 0 THEN acc
    ELSE BigEndianMod(p, k + 1, (acc * 256 + p[k]) % m, m)

\* The value modulo m of the bytes of p read as a little-endian number.
RECURSIVE LittleEndianMod(_, _, _, _)
LittleEndianMod(p, k, acc, m) ==
    IF k = 0 \/ acc < 0 THEN acc
    ELSE LittleEndianMod(p, k - 1, (acc * 256 + p[k]) % m, m)

\* n bytes holding the number v (v < 65536) in little-endian order.
LittleEndianBytes(v, n) ==
    Bytes([k \in 1..n |-> IF k = 1 THEN v % 256 ELSE IF k = 2 THEN v \div 256 ELSE 0], n)

(***************************************************************************)
(* SHA-512 and SHA-384                                                     *)
(***************************************************************************)
\* The 16-bit state after the bytes p[lo..hi] are taken in, in order, from
\* state acc. (The range is halved, not walked, to keep the evaluation shallow.)
RECURSIVE AbsorbRange(_, _, _, _)
AbsorbRange(p, lo, hi, acc) ==
    IF lo > hi THEN acc
    ELSE IF lo = hi THEN (acc * 251 + p[lo] + 1) % 65521
    ELSE LET mid == (lo + hi) \div 2
             left == AbsorbRange(p, lo, mid, acc)
         IN IF left >= 0 THEN AbsorbRange(p, mid + 1, hi, left) ELSE 0

Absorb(p, k, acc) == AbsorbRange(p, k, Len(p), acc)

\* n bytes drawn from the 16-bit state acc.
Squeeze(acc, n) ==
    Bytes([k \in 1..n |-> (((acc + 1) * (2 * k + 1) + k * k) % 65521) % 256], n)

SHA512(in) == Squeeze(Absorb(in, 1, 512), 64)

SHA384(in) == Squeeze(Absorb(in, 1, 384), 48)

(***************************************************************************)
(* Salsa20: a key stream selected by key, iv, rounds and block counter,    *)
(* xored onto the input                                                    *)
(***************************************************************************)
Salsa20(key, iv) == Absorb(iv, 1, Absorb(key, 1, 20))

KeyStream(s20, rounds, counter, n) ==
    Squeeze((s20 + 977 * counter + rounds) % 65521, n)

Crypt(s20, rounds, counter, in) ==
    LET ks == KeyStream(s20, rounds, counter, Len(in))
    IN Bytes([k \in 1..Len(in) |-> Xor8(in[k], ks[k])], Len(in))

(***************************************************************************)
(* Poly1305: a 16-byte tag of the data under a 32-byte key                 *)
(***************************************************************************)
Poly1305(data, key) == Squeeze(Absorb(data, 1, Absorb(key, 1, 1305)), 16)

(***************************************************************************)
(* Curve25519 / Ed25519                                                    *)
(***************************************************************************)
RECURSIVE ModExp(_, _, _)
ModExp(b, e, m) ==
    IF e = 0 THEN 1 % m
    ELSE LET h == ModExp(b, e \div 2, m)
             sq == (h * h) % m
         IN IF e % 2 = 1 THEN (sq * b) % m ELSE sq

GroupPrime == 32749
GroupOrder == GroupPrime - 1
GroupGen == 2

Scalar(priv) == LittleEndianMod(priv, Len(priv), 0, GroupOrder)
Point(pub) == LittleEndianMod(pub, Len(pub), 0, GroupPrime)

\* The secret bytes the random source yields for draw number seed.
RandomBytes(seed, salt, n) ==
    Bytes([k \in 1..n |-> (seed * 89 + k * 37 + salt * 101 + 11) % 256], n)

\* C25519::generateCombined: (Curve25519 key || Ed25519 key), public and private.
C25519_generateCombined(seed) ==
    LET dh == RandomBytes(seed, 1, 32)
        ed == RandomBytes(seed, 2, 32)
    IN [pub  |-> LittleEndianBytes(ModExp(GroupGen, Scalar(dh), GroupPrime), 32)
                 \o LittleEndianBytes(ModExp(GroupGen, Scalar(ed), GroupPrime), 32),
        priv |-> dh \o ed]

\* C25519::agree(mine, their, rawkey): reads 32 bytes at mine and 32 at their.
C25519_agree(mine, their) ==
    LittleEndianBytes(
        ModExp(Point(Slice(their, 0, ZT_C25519_ECDH_PUBLIC_KEY_SIZE)),
               Scalar(Slice(mine, 0, ZT_C25519_ECDH_PRIVATE_KEY_SIZE)),
               GroupPrime),
        ZT_C25519_ECDH_SHARED_SECRET_SIZE)

\* The number a signature signs: never 0, so that it binds the scalar.
Challenge(digest) == 1 + LittleEndianMod(digest, Len(digest), 0, GroupOrder - 1)

\* C25519::sign(myPrivate, myPublic, msg, len, signature): Ed25519 under the
\* second half of the combined key, followed by 32 bytes of SHA-512(msg).
C25519_sign(myPrivate, myPublic, msg) ==
    LET digest == SHA512(msg)
        s == (Scalar(Slice(myPrivate, 32, 32)) * Challenge(digest)) % GroupOrder
    IN LittleEndianBytes(ModExp(GroupGen, s, GroupPrime), 32)
       \o LittleEndianBytes(s, 32)
       \o Slice(digest, 0, 32)

\* C25519::verify(their, msg, len, signature, siglen)
C25519_verify(their, msg, sig, siglen) ==
    /\ siglen >= ZT_C25519_SIGNATURE_LEN
    /\ Len(sig) >= ZT_C25519_SIGNATURE_LEN
    /\ LET digest == SHA512(msg)
           s == Scalar(Slice(sig, 32, 32))
       IN /\ Slice(sig, 64, 32) = Slice(digest, 0, 32)
          /\ Slice(sig, 0, 32) = LittleEndianBytes(ModExp(GroupGen, s, GroupPrime), 32)
          /\ ModExp(GroupGen, s, GroupPrime)
               = ModExp(Point(Slice(their, 32, 32)), Challenge(digest), GroupPrime)

(***************************************************************************)
(* NIST P-384                                                              *)
(***************************************************************************)
\* ECC384GenerateKey(pub, priv): 49-byte compressed point, 48-byte scalar.
ECC384GenerateKey(seed) ==
    LET sk == RandomBytes(seed, 3, ZT_ECC384_PRIVATE_KEY_SIZE)
    IN [pub  |-> <<2>> \o LittleEndianBytes(ModExp(GroupGen, Scalar(sk), GroupPrime),
                                            ZT_ECC384_PUBLIC_KEY_SIZE - 1),
        priv |-> sk]

\* ECC384ECDH(theirPub, ourPriv, secret)
ECC384ECDH(theirPub, ourPriv) ==
    LittleEndianBytes(
        ModExp(Point(Slice(theirPub, 1, ZT_ECC384_PUBLIC_KEY_SIZE - 1)),
               Scalar(Slice(ourPriv, 0, ZT_ECC384_PRIVATE_KEY_SIZE)),
               GroupPrime),
        ZT_ECC384_SHARED_SECRET_SIZE)

\* ECC384ECDSASign(priv, hash, sig)
ECC384ECDSASign(priv, hash) ==
    LET s == (Scalar(Slice(priv, 0, ZT_ECC384_PRIVATE_KEY_SIZE)) * Challenge(hash))
               % GroupOrder
    IN LittleEndianBytes(ModExp(GroupGen, s, GroupPrime), 48)
       \o LittleEndianBytes(s, 48)

\* ECC384ECDSAVerify(pub, hash, sig)
ECC384ECDSAVerify(pub, hash, sig) ==
    /\ Len(sig) = ZT_ECC384_SIGNATURE_SIZE
    /\ LET s == Scalar(Slice(sig, 48, 48))
       IN /\ Slice(sig, 0, 48) = LittleEndianBytes(ModExp(GroupGen, s, GroupPrime), 48)
          /\ ModExp(GroupGen, s, GroupPrime)
               = ModExp(Point(Slice(pub, 1, ZT_ECC384_PUBLIC_KEY_SIZE - 1)),
                        Challenge(hash), GroupPrime)

(***************************************************************************)
(* Address                                                                 *)
(***************************************************************************)
\* Address(const uint8_t b[5]) / Address::setTo: the 5 bytes at b, big-endian.
\* An address is kept as its 5 bytes, most significant first.
Address(b) == Slice(b, 0, ZT_ADDRESS_LENGTH)

\* Address::isReserved: (!_a) || ((_a >> 32U) == ZT_ADDRESS_RESERVED_PREFIX)
isReserved(a) == a = Zeros(ZT_ADDRESS_LENGTH) \/ a[1] = 255

(***************************************************************************)
(* The V0 proof of work                                                    *)
(***************************************************************************)
\* The number of 64-byte blocks of genmem. The source works on
\* ZT_V0_IDENTITY_GEN_MEMORY / 64 = 32768 blocks; the model runs the same
\* two loops over this many.
V0GenMemBlocks == 2

\* The 64-bit word at ((uint64_t *)p)[k], as its 8 bytes in memory order.
Word(p, k) == Slice(p, 8 * k, 8)

\* Lines 40..54: genmem, from block i on, each block the encryption of the
\* block before it (block 0: of zeroes).
RECURSIVE FillGenmem(_, _, _, _)
FillGenmem(s20, i, prev, done) ==
    IF i = V0GenMemBlocks \/ Len(done) < 0 THEN done
    ELSE LET blk == Crypt(s20, 20, i, prev)
         IN FillGenmem(s20, i + 1, blk, done \o blk)

\* Lines 57..64: swap words between digest and genmem, encrypting digest
\* after every swap; i counts 64-bit words, two per round.
RECURSIVE RenderDigest(_, _, _, _)
RenderDigest(s20, genmem, digest, i) ==
    IF i >= V0GenMemBlocks * 8 \/ Len(digest) < 0 \/ Len(genmem) < 0 THEN digest
    ELSE LET idx1 == BigEndianMod(Word(genmem, i), 1, 0, 8)
             idx2 == BigEndianMod(Word(genmem, i + 1), 1, 0, V0GenMemBlocks * 8)
             tmp == Word(genmem, idx2)
             genmem2 == Put(genmem, 8 * idx2, Word(digest, idx1))
             digest2 == Put(digest, 8 * idx1, tmp)
         IN RenderDigest(s20, genmem2,
                         Crypt(s20, 20, V0GenMemBlocks + (i \div 2), digest2),
                         i + 2)

identityV0ProofOfWorkFrankenhash(publicKey) ==
    LET digest == SHA512(publicKey)
        s20 == Salsa20(Slice(digest, 0, 32), Slice(digest, 32, 8))
        genmem == FillGenmem(s20, 0, Zeros(64), <<>>)
    IN RenderDigest(s20, genmem, digest, 0)

\* identityV0ProofOfWorkCriteria::operator(), given the digest it computed.
identityV0ProofOfWorkCriteria(digest) == digest[1] < 17

(***************************************************************************)
(* The V1 proof of work                                                    *)
(***************************************************************************)
\* The number of 8-word blocks of w. The source works on
\* ZT_IDENTITY_V1_POW_MEMORY_SIZE / 64 = 2048 blocks; the model runs the
\* same loop, sort and checksum over this many.
V1PowBlocks == 3

\* 4503599627370496 - P for the eight moduli P of lines 111..118.
ModulusGap == <<395, 335, 269, 209, 197, 173, 143, 47>>

\* hton(ntoh(word) % P) for P = 2^52 - gap, on the 8 bytes of the word:
\* with x = h * 2^52 + l, x mod P is l + h * gap, less P when that is >= P.
\* The 52-bit numbers are held as a high part of 28 bits and a low of 24.
ModPrime(word, gap) ==
    LET h == word[1] * 16 + (word[2] \div 16)
        lh == (((word[2] % 16) * 256 + word[3]) * 256 + word[4]) * 256 + word[5]
        ll == (word[6] * 256 + word[7]) * 256 + word[8]
        sum == ll + h * gap
        yl == sum % 16777216
        yh == lh + (sum \div 16777216)
        wraps == yh = 268435456
        atTop == yh = 268435455 /\ yl >= 16777216 - gap
        rh == IF wraps \/ atTop THEN 0 ELSE yh
        rl == IF wraps THEN yl + gap
              ELSE IF atTop THEN yl - (16777216 - gap) ELSE yl
    IN << 0, rh \div 16777216, (rh \div 65536) % 256, (rh \div 256) % 256, rh % 256,
          rl \div 65536, (rl \div 256) % 256, rl % 256 >>

\* The low bits of a word as the host reads it: of its first byte in memory
\* on a little-endian host.
HostLowByte(word) == word[1]

\* One round of the loop of lines 103..123: w holds i words, the block at
\* j = i - 8 is wp, and the block written at i is ww.
powBlock(w, i) ==
    LET j == i - 8
        wp == Slice(w, 8 * j, 64)
    IN IF HostLowByte(Word(wp, 0)) % 8 = 0
       THEN SHA512(wp)
       ELSE IF HostLowByte(Word(wp, 1)) % 16 = 0
       THEN LET ww == ModPrime(Word(wp, 0), ModulusGap[1])
                      \o ModPrime(Word(wp, 1), ModulusGap[2])
                      \o ModPrime(Word(wp, 2), ModulusGap[3])
                      \o ModPrime(Word(wp, 3), ModulusGap[4])
                      \o ModPrime(Word(wp, 4), ModulusGap[5])
                      \o ModPrime(Word(wp, 5), ModulusGap[6])
                      \o ModPrime(Word(wp, 6), ModulusGap[7])
                      \o ModPrime(Word(wp, 7), ModulusGap[8])
            IN \* SHA384(ww, wp, 128): the 128 bytes at wp are wp, then ww
               SHA384(wp \o ww) \o Slice(ww, 48, 16)
       ELSE Crypt(Salsa20(Slice(wp, 0, 32), Slice(wp, 32, 8)), 12, 0, wp)

RECURSIVE powFill(_, _)
powFill(w, i) ==
    IF i >= V1PowBlocks * 8 \/ Len(w) < 0 THEN w
    ELSE powFill(w \o powBlock(w, i), i + 8)

\* p_CompareLittleEndian: a < b as little-endian 64-bit integers.
LittleEndianKey(word) ==
    << (word[8] * 256 + word[7]) * 256 + word[6],
       (word[5] * 256 + word[4]) * 256 + word[3],
       word[2] * 256 + word[1] >>

p_CompareLittleEndian(a, b) ==
    LET ka == LittleEndianKey(a)
        kb == LittleEndianKey(b)
    IN \/ ka[1] < kb[1]
       \/ ka[1] = kb[1] /\ ka[2] < kb[2]
       \/ ka[1] = kb[1] /\ ka[2] = kb[2] /\ ka[3] < kb[3]

\* std::sort of the words of w: words is a sequence of 8-byte words.
RECURSIVE InsertWord(_, _, _)
InsertWord(sorted, word, k) ==
    IF k > Len(sorted) \/ p_CompareLittleEndian(word, sorted[k])
    THEN SubSeq(sorted, 1, k - 1) \o <<word>> \o SubSeq(sorted, k, Len(sorted))
    ELSE InsertWord(sorted, word, k + 1)

RECURSIVE SortWords(_, _, _)
SortWords(w, k, sorted) ==
    IF k >= V1PowBlocks * 8 \/ Len(sorted) < 0 THEN sorted
    ELSE SortWords(w, k + 1, InsertWord(sorted, Word(w, k), 1))

RECURSIVE Flatten(_, _)
Flatten(words, k) ==
    IF k > Len(words) THEN <<>> ELSE words[k] \o Flatten(words, k + 1)

identityV1ProofOfWorkCriteria(in) ==
    LET w == powFill(SHA512(in), 8)
        sorted == Flatten(SortWords(w, 0, <<>>), 1)
        tag == Poly1305(sorted, Slice(sorted, 0, 32))
    IN BigEndianMod(Slice(tag, 0, 8), 1, 0, 1000) = 0

\* The same function on the memory of its buffer, one step at a time.
\* w is the whole array of line 96, PowWords 64-bit words of 8 bytes each;
\* a word index k is the C expression w + k.
PowWords == V1PowBlocks * 8

\* Lines 111..118: the eight words stored at ww[0..7].
ModWords(wp) ==
    ModPrime(Word(wp, 0), ModulusGap[1]) \o ModPrime(Word(wp, 1), ModulusGap[2])
    \o ModPrime(Word(wp, 2), ModulusGap[3]) \o ModPrime(Word(wp, 3), ModulusGap[4])
    \o ModPrime(Word(wp, 4), ModulusGap[5]) \o ModPrime(Word(wp, 5), ModulusGap[6])
    \o ModPrime(Word(wp, 6), ModulusGap[7]) \o ModPrime(Word(wp, 7), ModulusGap[8])

\* powRound with the SHA-384 of line 119 reading its 128 bytes at ww
\* instead of at wp; what lies past the array reads as zero.
powRound_hashAhead(w, i, j) ==
    LET wp == Slice(w, 8 * j, 64)
    IN IF HostLowByte(Word(wp, 0)) % 8 = 0
       THEN [w |-> Put(w, 8 * i, SHA512(wp)), branch |-> 1,
             rd |-> <<j, j + 8>>, wr |-> <<i, i + 8>>]
       ELSE IF HostLowByte(Word(wp, 1)) % 16 = 0
       THEN LET w1 == Put(w, 8 * i, ModWords(wp))
            IN [w |-> Put(w1, 8 * i, SHA384(Slice(w1 \o Zeros(64), 8 * i, 128))),
                branch |-> 2, rd |-> <<j, i + 16>>, wr |-> <<i, i + 8>>]
       ELSE [w |-> Put(w, 8 * i, Crypt(Salsa20(Slice(wp, 0, 32), Slice(wp, 32, 8)),
                                       12, 0, wp)),
             branch |-> 3, rd |-> <<j, j + 8>>, wr |-> <<i, i + 8>>]

\* The body of the loop of lines 103..123 with ww = w + i and wp = w + j:
\* the array after it, the branch it took, and the words it read (rd) and
\* wrote (wr), each as <<first index, last index + 1>>.
\*   line 109: SHA512(ww, wp, 64)       reads 64 bytes at wp, writes 64 at ww
\*   lines 111..118: ww[k] = f(wp[k])   reads wp[0..7], writes ww[0..7]
\*   line 119: SHA384(ww, wp, 128)      reads 128 bytes at wp, writes 48 at ww
\*   line 121: crypt12(wp, ww, 64)      key wp, iv wp + 4, reads wp, writes ww
powRound(w, i, j) ==
    LET wp == Slice(w, 8 * j, 64)
    IN IF HostLowByte(Word(wp, 0)) % 8 = 0
       THEN [w |-> Put(w, 8 * i, SHA512(wp)), branch |-> 1,
             rd |-> <<j, j + 8>>, wr |-> <<i, i + 8>>]
       ELSE IF HostLowByte(Word(wp, 1)) % 16 = 0
       THEN LET w1 == Put(w, 8 * i, ModWords(wp))
            IN [w |-> Put(w1, 8 * i, SHA384(Slice(w1, 8 * j, 128))),
                branch |-> 2, rd |-> <<j, j + 16>>, wr |-> <<i, i + 8>>]
       ELSE [w |-> Put(w, 8 * i, Crypt(Salsa20(Slice(wp, 0, 32), Slice(wp, 32, 8)),
                                       12, 0, wp)),
             branch |-> 3, rd |-> <<j, j + 8>>, wr |-> <<i, i + 8>>]

(***************************************************************************)
(* Utils: hex, base32, tokens. A string is a sequence of one-character     *)
(* strings, without its terminating zero.                                  *)
(***************************************************************************)
HexDigits ==
    << "0", "1", "2", "3", "4", "5", "6", "7", "8", "9", "a", "b", "c", "d", "e", "f" >>

B32Alphabet ==
    << "a", "b", "c", "d", "e", "f", "g", "h", "i", "j", "k", "l", "m", "n", "o", "p",
       "q", "r", "s", "t", "u", "v", "w", "x", "y", "z", "2", "3", "4", "5", "6", "7" >>

\* The value of character c in the alphabet, or -1.
DigitValue(alphabet, c) ==
    IF \E i \in 1..Len(alphabet) : alphabet[i] = c
    THEN (CHOOSE i \in 1..Len(alphabet) : alphabet[i] = c) - 1
    ELSE -1

DigitValues(alphabet, str) ==
    Bytes([k \in 1..Len(str) |-> DigitValue(alphabet, str[k])], Len(str))

Min(a, b) == IF a < b THEN a ELSE b

\* The length of the longest prefix of vals without a -1.
ValidPrefix(vals) ==
    IF \A k \in 1..Len(vals) : vals[k] >= 0 THEN Len(vals)
    ELSE (CHOOSE k \in 1..Len(vals) :
              vals[k] < 0 /\ \A m \in 1..(k - 1) : vals[m] >= 0) - 1

\* Utils::hex(data, len, out)
Utils_hex(data) ==
    Bytes([k \in 1..(2 * Len(data)) |->
              LET b == data[(k + 1) \div 2]
              IN HexDigits[(IF k % 2 = 1 THEN b \div 16 ELSE b % 16) + 1]],
          2 * Len(data))

\* Utils::unhex(h, hlen, buf, buflen): the bytes decoded, at most buflen, up
\* to the first character that is no hex digit.
Utils_unhex(h, buflen) ==
    LET vals == DigitValues(HexDigits, h)
        n == Min(buflen, ValidPrefix(vals) \div 2)
    IN Bytes([k \in 1..n |-> 16 * vals[2 * k - 1] + vals[2 * k]], n)

\* Utils::hexStrToU64(s) & ZT_ADDRESS_MASK: the low 40 bits of the number the
\* leading hex digits of s spell, as 5 bytes.
hexStrToAddress(str) ==
    LET vals == DigitValues(HexDigits, str)
        n == ValidPrefix(vals)
        nibble(k) == IF n - 10 + k >= 1 THEN vals[n - 10 + k] ELSE 0
    IN Bytes([k \in 1..5 |-> 16 * nibble(2 * k - 1) + nibble(2 * k)], 5)

\* Bit i (0 the most significant of the first unit) of a sequence of units
\* of w bits each; 0 past the end.
BitAt(units, w, i) ==
    IF i \div w >= Len(units) THEN 0
    ELSE (units[(i \div w) + 1] \div (2 ^ (w - 1 - (i % w)))) % 2

\* Utils::b32e(data, length, result, bufSize): 5 bits a character, the last
\* one padded with zero bits.
Utils_b32e(data) ==
    LET n == (8 * Len(data) + 4) \div 5
    IN Bytes([k \in 1..n |->
                 B32Alphabet[1 + 16 * BitAt(data, 8, 5 * (k - 1))
                               + 8 * BitAt(data, 8, 5 * (k - 1) + 1)
                               + 4 * BitAt(data, 8, 5 * (k - 1) + 2)
                               + 2 * BitAt(data, 8, 5 * (k - 1) + 3)
                               + BitAt(data, 8, 5 * (k - 1) + 4)]],
             n)

\* Utils::b32d(encoded, result, bufSize): the count of bytes decoded (at
\* most bufSize; -1 on a character outside the alphabet) and the bytes.
Utils_b32d(encoded, bufSize) ==
    LET vals == DigitValues(B32Alphabet, encoded)
        n == Min(bufSize, (5 * Len(encoded)) \div 8)
    IN IF ValidPrefix(vals) < Len(vals) THEN [count |-> -1, bytes |-> <<>>]
       ELSE [count |-> n,
             bytes |-> Bytes([k \in 1..n |->
                                 128 * BitAt(vals, 5, 8 * (k - 1))
                                 + 64 * BitAt(vals, 5, 8 * (k - 1) + 1)
                                 + 32 * BitAt(vals, 5, 8 * (k - 1) + 2)
                                 + 16 * BitAt(vals, 5, 8 * (k - 1) + 3)
                                 + 8 * BitAt(vals, 5, 8 * (k - 1) + 4)
                                 + 4 * BitAt(vals, 5, 8 * (k - 1) + 5)
                                 + 2 * BitAt(vals, 5, 8 * (k - 1) + 6)
                                 + BitAt(vals, 5, 8 * (k - 1) + 7)], n)]

\* Utils::stok(str, ":", &saveptr), called until it returns null: the
\* maximal runs of characters other than ':' in str, in order.
TokenStarts(str) ==
    {i \in 1..Len(str) : str[i] # ":" /\ (i = 1 \/ str[i - 1] = ":")}

TokenCount(str) == Cardinality(TokenStarts(str))

Token(str, k) ==
    LET starts == TokenStarts(str)
        first == CHOOSE i \in starts : Cardinality({j \in starts : j < i}) = k - 1
        last == CHOOSE j \in first..Len(str) :
                    /\ (j = Len(str) \/ str[j + 1] = ":")
                    /\ \A m \in first..j : str[m] # ":"
    IN SubSeq(str, first, last)

(***************************************************************************)
(* Identity                                                                *)
(***************************************************************************)
\* An Identity after memoryZero(this): m_fp is (address, hash).
NIL ==
    [m_type       |-> C25519,
     m_hasPrivate |-> FALSE,
     address      |-> Zeros(ZT_ADDRESS_LENGTH),
     hash         |-> Zeros(ZT_FINGERPRINT_HASH_SIZE),
     m_pub        |-> Zeros(ZT_IDENTITY_P384_COMPOUND_PUBLIC_KEY_SIZE),
     m_priv       |-> Zeros(ZT_IDENTITY_P384_COMPOUND_PRIVATE_KEY_SIZE)]

\* Identity::m_computeHash
m_computeHash(self) ==
    IF self.m_type = C25519
    THEN [self EXCEPT !.hash = SHA384(Slice(self.m_pub, 0, ZT_C25519_COMBINED_PUBLIC_KEY_SIZE))]
    ELSE IF self.m_type = P384
    THEN [self EXCEPT !.hash = SHA384(Slice(self.m_pub, 0, ZT_IDENTITY_P384_COMPOUND_PUBLIC_KEY_SIZE))]
    ELSE [self EXCEPT !.hash = Zeros(ZT_FINGERPRINT_HASH_SIZE),
                      !.address = Zeros(ZT_ADDRESS_LENGTH)]

\* Identity::generate, case C25519, one round of the do-while loop with the
\* key pair generateSatisfying returned for draw seed: the identity, or NIL
\* marked not done when the loop goes round again.
generate_C25519(self, seed) ==
    LET kp == C25519_generateCombined(seed)
        digest == identityV0ProofOfWorkFrankenhash(kp.pub)
        address == Address(Slice(digest, 59, ZT_ADDRESS_LENGTH))
        drawn == [self EXCEPT !.m_pub = Put(self.m_pub, 0, kp.pub),
                              !.m_priv = Put(self.m_priv, 0, kp.priv)]
    IN IF identityV0ProofOfWorkCriteria(digest) /\ ~isReserved(address)
       THEN [done |-> TRUE, id |-> m_computeHash([drawn EXCEPT !.address = address])]
       ELSE [done |-> FALSE, id |-> drawn]

\* Identity::generate, case P384, lines 169..171.
generate_P384_keys(self, seedC, seedE) ==
    LET c == C25519_generateCombined(seedC)
        e == ECC384GenerateKey(seedE)
        pub1 == Put(Put(self.m_pub, 0, <<0>>), 1, c.pub)
        priv1 == Put(self.m_priv, 1, c.priv)
    IN [self EXCEPT
          !.m_pub = Put(pub1, 1 + ZT_C25519_COMBINED_PUBLIC_KEY_SIZE, e.pub),
          !.m_priv = Put(priv1, ZT_C25519_COMBINED_PRIVATE_KEY_SIZE, e.priv)]

\* Lines 175..176: ++m_pub[0], and a new P-384 key when it wraps to 0.
generate_P384_next(self, seedE) ==
    LET nonce == (self.m_pub[1] + 1) % 256
        bumped == [self EXCEPT !.m_pub = Put(self.m_pub, 0, <<nonce>>)]
        e == ECC384GenerateKey(seedE)
    IN IF nonce = 0
       THEN [bumped EXCEPT
               !.m_pub = Put(bumped.m_pub, 1 + ZT_C25519_COMBINED_PUBLIC_KEY_SIZE, e.pub),
               !.m_priv = Put(bumped.m_priv, ZT_C25519_COMBINED_PRIVATE_KEY_SIZE, e.priv)]
       ELSE bumped

\* generate_P384_finish as it would be with the address taken from the last
\* five bytes of the hash.
generate_P384_finish_lastFive(self) ==
    LET hashed == m_computeHash(self)
        addr == Address(Slice(hashed.hash, ZT_FINGERPRINT_HASH_SIZE - ZT_ADDRESS_LENGTH,
                              ZT_ADDRESS_LENGTH))
    IN IF ~isReserved(addr)
       THEN [done |-> TRUE, id |-> [hashed EXCEPT !.address = addr]]
       ELSE [done |-> FALSE, id |-> hashed]

\* Lines 181..186, after the proof of work passed.
generate_P384_finish(self) ==
    LET hashed == m_computeHash(self)
        addr == Address(hashed.hash)
    IN IF ~isReserved(addr)
       THEN [done |-> TRUE, id |-> [hashed EXCEPT !.address = addr]]
       ELSE [done |-> FALSE, id |-> hashed]

\* Identity::locallyValidate
locallyValidate(self) ==
    /\ self.address # Zeros(ZT_ADDRESS_LENGTH)
    /\ ~isReserved(self.address)
    /\ IF self.m_type = C25519
       THEN LET digest == identityV0ProofOfWorkFrankenhash(
                              Slice(self.m_pub, 0, ZT_C25519_COMBINED_PUBLIC_KEY_SIZE))
            IN /\ Address(Slice(digest, 59, ZT_ADDRESS_LENGTH)) = self.address
               /\ digest[1] < 17
       ELSE IF self.m_type = P384
       THEN /\ Address(self.hash) = self.address
            /\ identityV1ProofOfWorkCriteria(self.m_pub)
       ELSE FALSE

\* sign as it would be with the C25519 case testing siglen against the 64
\* bytes of a bare Ed25519 signature.
sign_shortBuffer(self, data, siglen) ==
    IF self.m_hasPrivate /\ self.m_type = C25519 /\ siglen >= 64
    THEN [ret |-> ZT_C25519_SIGNATURE_LEN,
          sig |-> C25519_sign(self.m_priv, self.m_pub, data)]
    ELSE IF /\ self.m_hasPrivate
            /\ self.m_type \in {C25519, P384}
            /\ siglen >= ZT_ECC384_SIGNATURE_SIZE
    THEN [ret |-> ZT_ECC384_SIGNATURE_SIZE,
          sig |-> ECC384ECDSASign(
                      Slice(self.m_priv, 1 + ZT_C25519_COMBINED_PUBLIC_KEY_SIZE,
                            ZT_ECC384_PRIVATE_KEY_SIZE),
                      SHA384(data \o self.m_pub))]
    ELSE [ret |-> 0, sig |-> <<>>]

\* Identity::sign: the value returned and the signature written (none: <<>>).
\* The C25519 case has no break: when its test fails, control falls into the
\* P384 case.
sign(self, data, siglen) ==
    IF self.m_hasPrivate /\ self.m_type = C25519 /\ siglen >= ZT_C25519_SIGNATURE_LEN
    THEN [ret |-> ZT_C25519_SIGNATURE_LEN,
          sig |-> C25519_sign(self.m_priv, self.m_pub, data)]
    ELSE IF /\ self.m_hasPrivate
            /\ self.m_type \in {C25519, P384}
            /\ siglen >= ZT_ECC384_SIGNATURE_SIZE
    THEN LET h == SHA384(data \o self.m_pub)
         IN [ret |-> ZT_ECC384_SIGNATURE_SIZE,
             sig |-> ECC384ECDSASign(
                         Slice(self.m_priv, 1 + ZT_C25519_COMBINED_PUBLIC_KEY_SIZE,
                               ZT_ECC384_PRIVATE_KEY_SIZE), h)]
    ELSE [ret |-> 0, sig |-> <<>>]

\* ZT_Identity_sign (id is never null here)
ZT_Identity_sign(self, data, signatureBufferLength) ==
    IF signatureBufferLength < ZT_SIGNATURE_BUFFER_SIZE
    THEN [ret |-> 0, sig |-> <<>>]
    ELSE sign(self, data, signatureBufferLength)

\* Identity::verify
verify(self, data, sig, siglen) ==
    IF self.m_type = C25519
    THEN C25519_verify(self.m_pub, data, sig, siglen)
    ELSE IF self.m_type = P384 /\ siglen = ZT_ECC384_SIGNATURE_SIZE
    THEN ECC384ECDSAVerify(
             Slice(self.m_pub, 1 + ZT_C25519_COMBINED_PUBLIC_KEY_SIZE, ZT_ECC384_PUBLIC_KEY_SIZE),
             SHA384(data \o self.m_pub), sig)
    ELSE FALSE

\* Identity::agree: what it returns and the key it writes (none: <<>>).
agree(self, id) ==
    IF /\ self.m_hasPrivate
       /\ self.m_type = C25519
       /\ id.m_type \in {C25519, P384}
    THEN [ok |-> TRUE,
          key |-> Slice(SHA512(C25519_agree(self.m_priv, id.m_pub)), 0, ZT_SYMMETRIC_KEY_SIZE)]
    ELSE IF self.m_hasPrivate /\ self.m_type = P384 /\ id.m_type = P384
    THEN LET rawkey ==
                 C25519_agree(self.m_priv, id.m_pub)
                 \o ECC384ECDH(
                        Slice(id.m_pub, 1 + ZT_C25519_COMBINED_PUBLIC_KEY_SIZE,
                              ZT_ECC384_PUBLIC_KEY_SIZE),
                        Slice(self.m_priv, ZT_C25519_COMBINED_PRIVATE_KEY_SIZE,
                              ZT_ECC384_PRIVATE_KEY_SIZE))
         IN [ok |-> TRUE, key |-> Slice(SHA384(rawkey), 0, ZT_SYMMETRIC_KEY_SIZE)]
    ELSE IF self.m_hasPrivate /\ self.m_type = P384 /\ id.m_type = C25519
    THEN [ok |-> TRUE,
          key |-> Slice(SHA512(C25519_agree(self.m_priv, id.m_pub)), 0, ZT_SYMMETRIC_KEY_SIZE)]
    ELSE [ok |-> FALSE, key |-> <<>>]

\* Identity::toString: the string written to buf (<<>> for nullptr).
toString(self, includePrivate) ==
    IF self.m_type = C25519
    THEN Utils_hex(self.address) \o <<":", "0", ":">>
         \o Utils_hex(Slice(self.m_pub, 0, ZT_C25519_COMBINED_PUBLIC_KEY_SIZE))
         \o (IF self.m_hasPrivate /\ includePrivate
             THEN <<":">> \o Utils_hex(Slice(self.m_priv, 0, ZT_C25519_COMBINED_PRIVATE_KEY_SIZE))
             ELSE <<>>)
    ELSE IF self.m_type = P384
    THEN Utils_hex(self.address) \o <<":", "1", ":">>
         \o Utils_b32e(self.m_pub)
         \o (IF self.m_hasPrivate /\ includePrivate
             THEN <<":">> \o Utils_b32e(self.m_priv)
             ELSE <<>>)
    ELSE <<>>

\* Identity::fromString, the fields one by one. Each step takes the identity
\* so far and yields [ok, id]; ok FALSE is a return false.
fromString_address(self, f) ==
    LET a == hexStrToAddress(f)
    IN [ok |-> ~isReserved(a), id |-> [self EXCEPT !.address = a]]

fromString_type(self, f) ==
    IF f = <<"0">> THEN [ok |-> TRUE, id |-> [self EXCEPT !.m_type = C25519]]
    ELSE IF f = <<"1">> THEN [ok |-> TRUE, id |-> [self EXCEPT !.m_type = P384]]
    ELSE [ok |-> FALSE, id |-> self]

fromString_public(self, f) ==
    IF self.m_type = C25519
    THEN LET got == Utils_unhex(f, ZT_C25519_COMBINED_PUBLIC_KEY_SIZE)
         IN [ok |-> Len(got) = ZT_C25519_COMBINED_PUBLIC_KEY_SIZE,
             id |-> [self EXCEPT !.m_pub = Put(self.m_pub, 0, got)]]
    ELSE LET got == Utils_b32d(f, ZT_IDENTITY_P384_COMPOUND_PUBLIC_KEY_SIZE)
         IN [ok |-> got.count = ZT_IDENTITY_P384_COMPOUND_PUBLIC_KEY_SIZE,
             id |-> [self EXCEPT !.m_pub = Put(self.m_pub, 0, got.bytes)]]

fromString_private(self, f) ==
    IF Len(f) <= 1 THEN [ok |-> TRUE, id |-> self]
    ELSE IF self.m_type = C25519
    THEN LET got == Utils_unhex(f, ZT_C25519_COMBINED_PRIVATE_KEY_SIZE)
             ok == Len(got) = ZT_C25519_COMBINED_PRIVATE_KEY_SIZE
         IN [ok |-> ok,
             id |-> [self EXCEPT !.m_priv = Put(self.m_priv, 0, got),
                                 !.m_hasPrivate = ok]]
    ELSE LET got == Utils_b32d(f, ZT_IDENTITY_P384_COMPOUND_PRIVATE_KEY_SIZE)
             ok == got.count = ZT_IDENTITY_P384_COMPOUND_PRIVATE_KEY_SIZE
         IN [ok |-> ok,
             id |-> [self EXCEPT !.m_priv = Put(self.m_priv, 0, got.bytes),
                                 !.m_hasPrivate = ok]]

\* Identity::fromString: the loop of line 364 takes the first four tokens
\* and no more; fno is the number it took.
fromString(str) ==
    LET n == TokenCount(str)
        fno == Min(n, 4)
        s0 == IF fno >= 1 THEN fromString_address(NIL, Token(str, 1))
              ELSE [ok |-> TRUE, id |-> NIL]
        s1 == IF s0.ok /\ fno >= 2 THEN fromString_type(s0.id, Token(str, 2)) ELSE s0
        s2 == IF s1.ok /\ fno >= 3 THEN fromString_public(s1.id, Token(str, 3)) ELSE s1
        s3 == IF s2.ok /\ fno >= 4 THEN fromString_private(s2.id, Token(str, 4)) ELSE s2
        hashed == m_computeHash(s3.id)
    IN IF ~s3.ok THEN s3
       ELSE IF fno < 3 THEN [ok |-> FALSE, id |-> s3.id]
       ELSE [ok |-> ~(hashed.m_type = P384 /\ Address(hashed.hash) # hashed.address),
             id |-> hashed]

\* Identity::marshal: the value returned and the bytes written to data.
marshal(self, includePrivate) ==
    IF self.m_type = C25519
    THEN LET head == self.address \o <<C25519>>
                     \o Slice(self.m_pub, 0, ZT_C25519_COMBINED_PUBLIC_KEY_SIZE)
         IN IF includePrivate /\ self.m_hasPrivate
            THEN [ret |-> ZT_ADDRESS_LENGTH + 1 + ZT_C25519_COMBINED_PUBLIC_KEY_SIZE + 1
                            + ZT_C25519_COMBINED_PRIVATE_KEY_SIZE,
                  data |-> head \o <<ZT_C25519_COMBINED_PRIVATE_KEY_SIZE>>
                           \o Slice(self.m_priv, 0, ZT_C25519_COMBINED_PRIVATE_KEY_SIZE)]
            ELSE [ret |-> ZT_ADDRESS_LENGTH + 1 + ZT_C25519_COMBINED_PUBLIC_KEY_SIZE + 1,
                  data |-> head \o <<0>>]
    ELSE IF self.m_type = P384
    THEN LET head == self.address \o <<P384>>
                     \o Slice(self.m_pub, 0, ZT_IDENTITY_P384_COMPOUND_PUBLIC_KEY_SIZE)
         IN IF includePrivate /\ self.m_hasPrivate
            THEN [ret |-> ZT_ADDRESS_LENGTH + 1 + ZT_IDENTITY_P384_COMPOUND_PUBLIC_KEY_SIZE + 1
                            + ZT_IDENTITY_P384_COMPOUND_PRIVATE_KEY_SIZE,
                  data |-> head \o <<ZT_IDENTITY_P384_COMPOUND_PRIVATE_KEY_SIZE>>
                           \o Slice(self.m_priv, 0, ZT_IDENTITY_P384_COMPOUND_PRIVATE_KEY_SIZE)]
            ELSE [ret |-> ZT_ADDRESS_LENGTH + 1 + ZT_IDENTITY_P384_COMPOUND_PUBLIC_KEY_SIZE + 1,
                  data |-> head \o <<0>>]
    ELSE [ret |-> -1, data |-> <<>>]

\* unmarshal_C25519 as it would be without the length test of line 486.
unmarshal_C25519_noLengthTest(self, data, len) ==
    LET P == ZT_ADDRESS_LENGTH + 1 + ZT_C25519_COMBINED_PUBLIC_KEY_SIZE
        withPub == m_computeHash(
                       [self EXCEPT !.m_pub =
                           Put(self.m_pub, 0,
                               Slice(data, ZT_ADDRESS_LENGTH + 1,
                                     ZT_C25519_COMBINED_PUBLIC_KEY_SIZE))])
        privlen == data[P + 1]
    IN IF len < P + 1
       THEN [ret |-> -1, id |-> self, nread |-> ZT_ADDRESS_LENGTH + 1]
       ELSE IF privlen = ZT_C25519_COMBINED_PRIVATE_KEY_SIZE
       THEN [ret |-> P + 1 + ZT_C25519_COMBINED_PRIVATE_KEY_SIZE,
             id |-> [withPub EXCEPT
                       !.m_hasPrivate = TRUE,
                       !.m_priv = Put(withPub.m_priv, 0,
                                      Slice(data, P + 1,
                                            ZT_C25519_COMBINED_PRIVATE_KEY_SIZE))],
             nread |-> P + 1 + ZT_C25519_COMBINED_PRIVATE_KEY_SIZE]
       ELSE IF privlen = 0
       THEN [ret |-> P + 1, id |-> [withPub EXCEPT !.m_hasPrivate = FALSE], nread |-> P + 1]
       ELSE [ret |-> -1, id |-> withPub, nread |-> P + 1]

\* Identity::unmarshal, case C25519 (lines 478..495), given the identity
\* with address and type set. nread is one more than the highest index of
\* data the code read.
unmarshal_C25519(self, data, len) ==
    LET P == ZT_ADDRESS_LENGTH + 1 + ZT_C25519_COMBINED_PUBLIC_KEY_SIZE
        withPub == m_computeHash(
                       [self EXCEPT !.m_pub =
                           Put(self.m_pub, 0,
                               Slice(data, ZT_ADDRESS_LENGTH + 1,
                                     ZT_C25519_COMBINED_PUBLIC_KEY_SIZE))])
        privlen == data[P + 1]
    IN IF len < P + 1
       THEN [ret |-> -1, id |-> self, nread |-> ZT_ADDRESS_LENGTH + 1]
       ELSE IF privlen = ZT_C25519_COMBINED_PRIVATE_KEY_SIZE
       THEN IF len < P + 1 + ZT_C25519_COMBINED_PRIVATE_KEY_SIZE
            THEN [ret |-> -1, id |-> withPub, nread |-> P + 1]
            ELSE [ret |-> P + 1 + ZT_C25519_COMBINED_PRIVATE_KEY_SIZE,
                  id |-> [withPub EXCEPT
                            !.m_hasPrivate = TRUE,
                            !.m_priv = Put(withPub.m_priv, 0,
                                           Slice(data, P + 1,
                                                 ZT_C25519_COMBINED_PRIVATE_KEY_SIZE))],
                  nread |-> P + 1 + ZT_C25519_COMBINED_PRIVATE_KEY_SIZE]
       ELSE IF privlen = 0
       THEN [ret |-> P + 1, id |-> [withPub EXCEPT !.m_hasPrivate = FALSE], nread |-> P + 1]
       ELSE [ret |-> -1, id |-> withPub, nread |-> P + 1]

\* unmarshal_P384 as it would be without the comparison of line 503.
unmarshal_P384_anyAddress(self, data, len) ==
    LET P == ZT_ADDRESS_LENGTH + 1 + ZT_IDENTITY_P384_COMPOUND_PUBLIC_KEY_SIZE
        withPub == m_computeHash(
                       [self EXCEPT !.m_pub =
                           Slice(data, ZT_ADDRESS_LENGTH + 1,
                                 ZT_IDENTITY_P384_COMPOUND_PUBLIC_KEY_SIZE)])
        privlen == data[P + 1]
    IN IF len < P + 1
       THEN [ret |-> -1, id |-> self, nread |-> ZT_ADDRESS_LENGTH + 1]
       ELSE IF privlen = ZT_IDENTITY_P384_COMPOUND_PRIVATE_KEY_SIZE
       THEN IF len < P + 1 + ZT_IDENTITY_P384_COMPOUND_PRIVATE_KEY_SIZE
            THEN [ret |-> -1, id |-> withPub, nread |-> P + 1]
            ELSE [ret |-> P + 1 + ZT_IDENTITY_P384_COMPOUND_PRIVATE_KEY_SIZE,
                  id |-> [withPub EXCEPT
                            !.m_hasPrivate = TRUE,
                            !.m_priv = Slice(data, P + 1,
                                             ZT_IDENTITY_P384_COMPOUND_PRIVATE_KEY_SIZE)],
                  nread |-> P + 1 + ZT_IDENTITY_P384_COMPOUND_PRIVATE_KEY_SIZE]
       ELSE IF privlen = 0
       THEN [ret |-> P + 1, id |-> [withPub EXCEPT !.m_hasPrivate = FALSE], nread |-> P + 1]
       ELSE [ret |-> -1, id |-> withPub, nread |-> P + 1]

\* Identity::unmarshal, case P384 (lines 498..517).
unmarshal_P384(self, data, len) ==
    LET P == ZT_ADDRESS_LENGTH + 1 + ZT_IDENTITY_P384_COMPOUND_PUBLIC_KEY_SIZE
        withPub == m_computeHash(
                       [self EXCEPT !.m_pub =
                           Slice(data, ZT_ADDRESS_LENGTH + 1,
                                 ZT_IDENTITY_P384_COMPOUND_PUBLIC_KEY_SIZE)])
        privlen == data[P + 1]
    IN IF len < P + 1
       THEN [ret |-> -1, id |-> self, nread |-> ZT_ADDRESS_LENGTH + 1]
       ELSE IF Address(withPub.hash) # withPub.address
       THEN [ret |-> -1, id |-> withPub, nread |-> P]
       ELSE IF privlen = ZT_IDENTITY_P384_COMPOUND_PRIVATE_KEY_SIZE
       THEN IF len < P + 1 + ZT_IDENTITY_P384_COMPOUND_PRIVATE_KEY_SIZE
            THEN [ret |-> -1, id |-> withPub, nread |-> P + 1]
            ELSE [ret |-> P + 1 + ZT_IDENTITY_P384_COMPOUND_PRIVATE_KEY_SIZE,
                  id |-> [withPub EXCEPT
                            !.m_hasPrivate = TRUE,
                            !.m_priv = Slice(data, P + 1,
                                             ZT_IDENTITY_P384_COMPOUND_PRIVATE_KEY_SIZE)],
                  nread |-> P + 1 + ZT_IDENTITY_P384_COMPOUND_PRIVATE_KEY_SIZE]
       ELSE IF privlen = 0
       THEN [ret |-> P + 1, id |-> [withPub EXCEPT !.m_hasPrivate = FALSE], nread |-> P + 1]
       ELSE [ret |-> -1, id |-> withPub, nread |-> P + 1]

\* Identity::unmarshal
unmarshal(data, len) ==
    IF len < 1 + ZT_ADDRESS_LENGTH
    THEN [ret |-> -1, id |-> NIL, nread |-> 0]
    ELSE LET self == [NIL EXCEPT !.address = Address(data),
                                 !.m_type = data[ZT_ADDRESS_LENGTH + 1]]
         IN IF self.m_type = C25519 THEN unmarshal_C25519(self, data, len)
            ELSE IF self.m_type = P384 THEN unmarshal_P384(self, data, len)
            ELSE [ret |-> -1, id |-> self, nread |-> ZT_ADDRESS_LENGTH + 1]

(***************************************************************************)
(* The state machine: one Identity object, self, built by generate,        *)
(* fromString or unmarshal and then used; a second Identity, peer, kept    *)
(* from an earlier generate, that agree takes as its argument; and res,    *)
(* what the last call returned and wrote. frame is the stack frame of one   *)
(* call of identityV1ProofOfWorkCriteria followed step by step.            *)
(***************************************************************************)
VARIABLES self, pc, how, peer, res, frame

vars == <<self, pc, how, peer, res, frame>>

\* Seeds of the key pairs C25519::generateSatisfying tries (case C25519),
\* of the pairs C25519::generateCombined returns (case P384), and of the
\* pairs ECC384GenerateKey returns.
V0Seeds == {0, 3, 11}
V1Seeds == {4, 5}
ECCSeeds == {5, 7}

\* Messages signed, and signature buffer sizes offered.
Messages == {<<>>, <<104, 105>>}
SigLens == {0, 95, 96, 97}

\* What a call left behind: its name, what it returned (ok, ret), what it
\* wrote (out, other), what it was given (in, len), the highest index of its
\* input it read plus one (nread), and the identity a string or buffer was
\* made from (orig).
NoRes ==
    [op |-> "none", ok |-> FALSE, ret |-> 0, out |-> <<>>, other |-> <<>>,
     in |-> <<>>, len |-> 0, nread |-> 0, orig |-> NIL]

\* No call of identityV1ProofOfWorkCriteria under way.
NoFrame ==
    [at |-> "idle", in |-> <<>>, w |-> <<>>, i |-> 0, j |-> 0, branch |-> 0,
     rd |-> <<0, 0>>, wr |-> <<0, 0>>, ret |-> FALSE]

Init ==
    /\ self = NIL
    /\ pc = "new"
    /\ how = "none"
    /\ peer = NIL
    /\ res = NoRes
    /\ frame = NoFrame

\* A new Identity object in place of the one held.
New ==
    /\ pc \in {"ready", "failed"}
    /\ self' = NIL
    /\ pc' = "new"
    /\ how' = "none"
    /\ res' = NoRes
    /\ UNCHANGED peer
    /\ UNCHANGED frame

\* generate(t) up to its loop: lines 144..145, and for P384 lines 169..171.
Generate(t) ==
    /\ pc = "new"
    /\ how' = "generate"
    /\ res' = NoRes
    /\ UNCHANGED peer
    /\ LET typed == [self EXCEPT !.m_type = t, !.m_hasPrivate = TRUE]
       IN IF t = C25519 THEN self' = typed /\ pc' = "v0"
          ELSE IF t = P384
          THEN \E c \in V1Seeds, e \in ECCSeeds :
                   /\ self' = generate_P384_keys(typed, c, e)
                   /\ pc' = "v1"
          ELSE self' = typed /\ pc' = "failed"
    /\ UNCHANGED frame

\* generate(C25519): one round of the loop of lines 155..158.
GenerateV0 ==
    /\ pc = "v0"
    /\ \E seed \in V0Seeds :
           LET r == generate_C25519(self, seed)
           IN /\ self' = r.id
              /\ pc' = IF r.done THEN "ready" ELSE "v0"
    /\ UNCHANGED <<how, peer, res>>
    /\ UNCHANGED frame

\* generate(P384): one round of the loop of lines 172..177, and lines
\* 181..186 when the proof of work passes.
GenerateV1 ==
    /\ pc = "v1"
    /\ IF identityV1ProofOfWorkCriteria(self.m_pub)
       THEN LET r == generate_P384_finish(self)
            IN IF r.done
               THEN self' = r.id /\ pc' = "ready"
               ELSE \E c \in V1Seeds, e \in ECCSeeds :
                        /\ self' = generate_P384_keys(r.id, c, e)
                        /\ pc' = "v1"
       ELSE \E e \in ECCSeeds :
                /\ self' = generate_P384_next(self, e)
                /\ pc' = "v1"
    /\ UNCHANGED <<how, peer, res>>
    /\ UNCHANGED frame

\* The generated identity becomes the other party, and a new object is made.
Keep ==
    /\ pc = "ready"
    /\ how = "generate"
    /\ peer = NIL
    /\ res = NoRes
    /\ peer' = self
    /\ self' = NIL
    /\ pc' = "new"
    /\ how' = "none"
    /\ UNCHANGED res
    /\ UNCHANGED frame

\* self.agree(peer, key) and peer.agree(self, key)
Agree ==
    /\ pc = "ready"
    /\ peer # NIL
    /\ LET mine == agree(self, peer)
           theirs == agree(peer, self)
       IN res' = [NoRes EXCEPT !.op = "agree", !.ok = mine.ok /\ theirs.ok,
                               !.out = mine.key, !.other = theirs.key]
    /\ UNCHANGED <<self, pc, how, peer>>
    /\ UNCHANGED frame

\* sign, verify, locallyValidate, toString and marshal are const: they leave
\* self as it is, so each is called on the object as generate, fromString or
\* unmarshal left it.
Usable == pc = "ready" /\ peer = NIL

Built == Usable /\ res.op \in {"none", "fromString", "unmarshal"}

Sign ==
    /\ Built
    /\ \E data \in Messages, siglen \in SigLens :
           LET r == sign(self, data, siglen)
           IN res' = [NoRes EXCEPT !.op = "sign", !.ret = r.ret, !.out = r.sig,
                                   !.in = data, !.len = siglen]
    /\ UNCHANGED <<self, pc, how, peer>>
    /\ UNCHANGED frame

SignC ==
    /\ Built
    /\ \E data \in Messages, siglen \in SigLens :
           LET r == ZT_Identity_sign(self, data, siglen)
           IN res' = [NoRes EXCEPT !.op = "ZT_Identity_sign", !.ret = r.ret,
                                   !.out = r.sig, !.in = data, !.len = siglen]
    /\ UNCHANGED <<self, pc, how, peer>>
    /\ UNCHANGED frame

\* verify of the signature just made, over the message signed or another.
Verify ==
    /\ Usable
    /\ res.op \in {"sign", "ZT_Identity_sign"}
    /\ res.ret > 0
    /\ \E data \in Messages :
           res' = [NoRes EXCEPT !.op = "verify",
                                !.ok = verify(self, data, res.out, res.ret),
                                !.in = data, !.other = res.in, !.out = res.out,
                                !.len = res.ret]
    /\ UNCHANGED <<self, pc, how, peer>>
    /\ UNCHANGED frame

Validate ==
    /\ Built
    /\ res' = [NoRes EXCEPT !.op = "locallyValidate", !.ok = locallyValidate(self)]
    /\ UNCHANGED <<self, pc, how, peer>>
    /\ UNCHANGED frame

ToStringCall ==
    /\ Built
    /\ \E includePrivate \in BOOLEAN :
           res' = [NoRes EXCEPT !.op = "toString",
                                !.out = toString(self, includePrivate),
                                !.ok = includePrivate, !.orig = self]
    /\ UNCHANGED <<self, pc, how, peer>>
    /\ UNCHANGED frame

Marshal ==
    /\ Built
    /\ \E includePrivate \in BOOLEAN :
           LET r == marshal(self, includePrivate)
           IN res' = [NoRes EXCEPT !.op = "marshal", !.ret = r.ret, !.out = r.data,
                                   !.ok = includePrivate, !.orig = self]
    /\ UNCHANGED <<self, pc, how, peer>>
    /\ UNCHANGED frame

\* Strings handed to fromString: the one toString wrote, and that string
\* with a field added, with fields missing, with another address, another
\* type or another first character of the public key.
StringInputs(str) ==
    {str,
     str \o <<":", "z", "z">>,
     str \o <<":", "z">>,
     SubSeq(str, 1, 12),
     Put(str, 0, <<"0", "0", "0", "0", "0", "0", "0", "0", "0", "0">>),
     Put(str, 0, <<"f", "f", "0", "0", "0", "0", "0", "0", "0", "1">>),
     Put(str, 0, <<"0", "1", "2", "3", "4", "5", "6", "7", "8", "9">>),
     Put(str, 11, <<"2">>),
     Put(str, 13, <<IF str[14] = "a" THEN "b" ELSE "a">>)}

\* Buffers handed to unmarshal with their full length: the one marshal
\* wrote, and that buffer with bytes after it, with another address, type,
\* first byte of the public key or private key length.
BufferInputs(data) ==
    LET privlenAt == IF data[ZT_ADDRESS_LENGTH + 1] = C25519
                     THEN ZT_ADDRESS_LENGTH + 1 + ZT_C25519_COMBINED_PUBLIC_KEY_SIZE
                     ELSE ZT_ADDRESS_LENGTH + 1 + ZT_IDENTITY_P384_COMPOUND_PUBLIC_KEY_SIZE
    IN {data,
        data \o <<0, 0>>,
        Put(data, 0, <<0, 0, 0, 0, 0>>),
        Put(data, 0, <<255, 0, 0, 0, 1>>),
        Put(data, 0, <<1, 2, 3, 4, 5>>),
        Put(data, ZT_ADDRESS_LENGTH, <<2>>),
        Put(data, ZT_ADDRESS_LENGTH + 1, <<(data[ZT_ADDRESS_LENGTH + 2] + 1) % 256>>),
        Put(data, privlenAt, <<1>>)}

\* self.fromString(str). Strings other than toString's own are tried on the
\* strings of generated identities only.
FromString ==
    /\ Usable
    /\ res.op = "toString"
    /\ \E str \in (IF how = "generate" THEN StringInputs(res.out) ELSE {res.out}) :
           LET r == fromString(str)
           IN /\ self' = r.id
              /\ pc' = IF r.ok THEN "ready" ELSE "failed"
              /\ res' = [NoRes EXCEPT !.op = "fromString", !.ok = r.ok, !.in = str,
                                      !.len = Len(str), !.orig = res.orig]
    /\ how' = "fromString"
    /\ UNCHANGED peer
    /\ UNCHANGED frame

\* self.unmarshal(data, len) of a whole buffer.
Unmarshal ==
    /\ Usable
    /\ res.op = "marshal"
    /\ \E data \in (IF how = "generate" THEN BufferInputs(res.out) ELSE {res.out}) :
           LET r == unmarshal(data, Len(data))
           IN /\ self' = r.id
              /\ pc' = IF r.ret >= 0 THEN "ready" ELSE "failed"
              /\ res' = [NoRes EXCEPT !.op = "unmarshal", !.ret = r.ret, !.in = data,
                                      !.len = Len(data), !.nread = r.nread,
                                      !.orig = res.orig]
    /\ how' = "unmarshal"
    /\ UNCHANGED peer
    /\ UNCHANGED frame

\* self.unmarshal(data, len) with len short of what marshal wrote.
UnmarshalTruncated ==
    /\ Usable
    /\ res.op = "marshal"
    /\ how = "generate"
    /\ \E len \in 0..(Len(res.out) - 1) :
           LET r == unmarshal(res.out, len)
           IN /\ self' = r.id
              /\ pc' = IF r.ret >= 0 THEN "ready" ELSE "failed"
              /\ res' = [NoRes EXCEPT !.op = "unmarshal", !.ret = r.ret, !.in = res.out,
                                      !.len = len, !.nread = r.nread, !.orig = res.orig]
    /\ how' = "unmarshal"
    /\ UNCHANGED peer
    /\ UNCHANGED frame

Next ==
    \/ New
    \/ \E t \in {C25519, P384, 2} : Generate(t)
    \/ GenerateV0
    \/ GenerateV1
    \/ Keep
    \/ Agree
    \/ Sign
    \/ SignC
    \/ Verify
    \/ Validate
    \/ ToStringCall
    \/ Marshal
    \/ FromString
    \/ Unmarshal
    \/ UnmarshalTruncated

Spec == Init /\ [][Next]_vars

(***************************************************************************)
(* identityV1ProofOfWorkCriteria(in, len) step by step: the call, each     *)
(* round of its loop, the sort, and the checksum and test.                 *)
(***************************************************************************)
\* The blobs the function is called on: the public blobs generate(P384)
\* builds (line 173), under the nonces 0..31.
PowInputs ==
    { Put(generate_P384_keys(NIL, c, e).m_pub, 0, <<n>>) :
        c \in V1Seeds, e \in ECCSeeds, n \in 0..31 }

\* What the array of line 96, which is not initialised, may hold: every
\* byte this value.
PowJunk == {0, 170}

\* Lines 96..103: the array, SHA512(w, in, len), and i = 8, j = 0.
PowCall ==
    /\ frame.at = "idle"
    /\ \E in \in PowInputs, junk \in PowJunk :
           frame' = [at |-> "loop", in |-> in,
                     w |-> Put(Bytes([k \in 1..8 * PowWords |-> junk], 8 * PowWords),
                               0, SHA512(in)),
                     i |-> 8, j |-> 0, branch |-> 0,
                     rd |-> <<0, 0>>, wr |-> <<0, 8>>, ret |-> FALSE]
    /\ UNCHANGED <<self, pc, how, peer, res>>

\* One round of the loop of lines 103..123; i and j advance at line 106.
PowRound ==
    /\ frame.at = "loop"
    /\ frame.i < PowWords
    /\ LET r == powRound(frame.w, frame.i, frame.j)
       IN frame' = [frame EXCEPT !.w = r.w, !.i = frame.i + 8, !.j = frame.j + 8,
                                 !.branch = r.branch, !.rd = r.rd, !.wr = r.wr]
    /\ UNCHANGED <<self, pc, how, peer, res>>

\* Line 129 when the loop has ended: std::sort of the words of w.
PowSort ==
    /\ frame.at = "loop"
    /\ frame.i >= PowWords
    /\ frame' = [frame EXCEPT !.at = "sorted",
                              !.w = Flatten(SortWords(frame.w, 0, <<>>), 1),
                              !.branch = 0,
                              !.rd = <<0, PowWords>>, !.wr = <<0, PowWords>>]
    /\ UNCHANGED <<self, pc, how, peer, res>>

\* Lines 130..135: Poly1305 of w under the key at w, written at w, and the
\* test of w[0].
PowTest ==
    /\ frame.at = "sorted"
    /\ LET tag == Poly1305(frame.w, Slice(frame.w, 0, 32))
       IN frame' = [frame EXCEPT !.at = "done",
                                 !.w = Put(frame.w, 0, tag),
                                 !.rd = <<0, PowWords>>, !.wr = <<0, 2>>,
                                 !.ret = BigEndianMod(Slice(tag, 0, 8), 1, 0, 1000) = 0]
    /\ UNCHANGED <<self, pc, how, peer, res>>

\* The function has returned.
PowReturn ==
    /\ frame.at = "done"
    /\ frame' = NoFrame
    /\ UNCHANGED <<self, pc, how, peer, res>>

PowNext ==
    \/ PowCall
    \/ PowRound
    \/ PowSort
    \/ PowTest
    \/ PowReturn

PowSpec == Init /\ [][PowNext]_vars

(***************************************************************************)
(* Properties                                                              *)
(***************************************************************************)
\* True when agree has just been called both ways on two generated
\* identities.
Agreed == res.op = "agree"

\* C1: agreement is symmetric. For two identities that generate produced, of
\* any two types, self.agree(peer) and peer.agree(self) both return true and
\* write the same 48-byte key.
C1_AgreeSymmetric ==
    Agreed => /\ res.ok
              /\ Len(res.out) = ZT_SYMMETRIC_KEY_SIZE
              /\ res.out = res.other

\* The C25519 half of an identity's blobs: the blob itself for C25519, the
\* 64 bytes after the nonce for P384.
C25519Public(id) ==
    IF id.m_type = P384
    THEN Slice(id.m_pub, 1, ZT_C25519_COMBINED_PUBLIC_KEY_SIZE)
    ELSE Slice(id.m_pub, 0, ZT_C25519_COMBINED_PUBLIC_KEY_SIZE)

C25519Private(id) ==
    IF id.m_type = P384
    THEN Slice(id.m_priv, 1, ZT_C25519_COMBINED_PRIVATE_KEY_SIZE)
    ELSE Slice(id.m_priv, 0, ZT_C25519_COMBINED_PRIVATE_KEY_SIZE)

\* C2: cross-type agreement. With one side C25519 and the other P384, the
\* key self.agree(peer) writes is the first 48 bytes of the SHA-512 of the
\* Curve25519 agreement between the C25519 private key of self and the
\* C25519 public key of peer, the C25519 half of a P384 identity being the
\* 64 bytes after the nonce.
C2_CrossTypeAgreement ==
    Agreed /\ self.m_type # peer.m_type
        => res.out = Slice(SHA512(C25519_agree(C25519Private(self), C25519Public(peer))),
                           0, ZT_SYMMETRIC_KEY_SIZE)

\* C3: signatures are verifiable. On an identity generate produced, of
\* either type, sign with a buffer of at least 96 bytes returns 96, and
\* verify of that signature over the same data returns true.
C3_SignVerify ==
    /\ res.op = "sign" /\ how = "generate" /\ res.len >= ZT_SIGNATURE_BUFFER_SIZE
           => res.ret = ZT_SIGNATURE_BUFFER_SIZE
    /\ res.op = "verify" /\ how = "generate" /\ res.in = res.other
           => res.ok

\* The address a string gives, its type field and the public blob it holds.
StringIsP384(str) == TokenCount(str) >= 3 /\ Token(str, 2) = <<"1">>

StringPublic(str) == Utils_b32d(Token(str, 3), ZT_IDENTITY_P384_COMPOUND_PUBLIC_KEY_SIZE)

StringMismatch(str, off) ==
    /\ StringIsP384(str)
    /\ StringPublic(str).count = ZT_IDENTITY_P384_COMPOUND_PUBLIC_KEY_SIZE
    /\ hexStrToAddress(Token(str, 1))
           # Slice(SHA384(StringPublic(str).bytes), off, ZT_ADDRESS_LENGTH)

\* A buffer holding a whole P384 public blob whose address bytes are not the
\* five bytes at off of the SHA-384 of that blob.
BufferMismatch(data, len, off) ==
    /\ len >= ZT_ADDRESS_LENGTH + 1 + ZT_IDENTITY_P384_COMPOUND_PUBLIC_KEY_SIZE + 1
    /\ data[ZT_ADDRESS_LENGTH + 1] = P384
    /\ Address(data)
           # Slice(SHA384(Slice(data, ZT_ADDRESS_LENGTH + 1,
                                ZT_IDENTITY_P384_COMPOUND_PUBLIC_KEY_SIZE)),
                   off, ZT_ADDRESS_LENGTH)

\* The claim of C4 with the five bytes taken at offset off of the hash.
AddressIsHashAt(off) ==
    /\ pc = "ready" /\ self.m_type = P384
           => /\ self.hash = SHA384(self.m_pub)
              /\ self.address = Slice(self.hash, off, ZT_ADDRESS_LENGTH)
    /\ res.op = "fromString" /\ StringMismatch(res.in, off) => ~res.ok
    /\ res.op = "unmarshal" /\ BufferMismatch(res.in, res.len, off) => res.ret = -1

\* C4, as the code has it: the address of every P384 identity that generate
\* produced or that fromString or unmarshal accepted is the FIRST five bytes
\* of the SHA-384 of its public blob, and both parsers reject a P384 input
\* whose address is not those bytes.
C4_AddressIsFirstFive == AddressIsHashAt(0)

\* C4 as stated: the address is the last five bytes, 43..48, of the hash.
C4_AddressIsLastFive == AddressIsHashAt(ZT_FINGERPRINT_HASH_SIZE - ZT_ADDRESS_LENGTH)

\* unmarshal has just rejected a whole P384 buffer for its address.
C4_MismatchRejected ==
    /\ res.op = "unmarshal"
    /\ res.len = Len(res.in)
    /\ BufferMismatch(res.in, res.len, 0)
    /\ res.in[ZT_ADDRESS_LENGTH + 1 + ZT_IDENTITY_P384_COMPOUND_PUBLIC_KEY_SIZE + 1] = 0
    /\ res.ret = -1

\* C5: every identity that generate produced or that fromString or unmarshal
\* accepted has an address that is not reserved.
C5_AddressNotReserved ==
    pc = "ready" => ~isReserved(self.address)

\* C6, as the code has it: on every identity that generate produced,
\* locallyValidate returns true.
C6_GeneratedValidates ==
    res.op = "locallyValidate" /\ how = "generate" => res.ok

\* C6 as stated: locallyValidate returns true on every identity that
\* generate produced or that fromString or unmarshal accepted.
C6_AllValidate ==
    res.op = "locallyValidate" => res.ok

\* locallyValidate has just returned true on a generated P384 identity.
C6_GeneratedP384Validated ==
    /\ res.op = "locallyValidate"
    /\ how = "generate"
    /\ self.m_type = P384
    /\ res.ok

\* C7: round trip. For an identity with private material, fromString of what
\* toString(true) wrote, and unmarshal of what marshal(true) wrote, succeed
\* and leave an identity equal to the original in every field; unmarshal
\* returns the number of bytes marshal returned.
C7_RoundTrip ==
    /\ (/\ res.op = "fromString"
        /\ res.orig.m_hasPrivate
        /\ res.in = toString(res.orig, TRUE))
           => res.ok /\ self = res.orig
    /\ (/\ res.op = "unmarshal"
        /\ res.orig.m_hasPrivate
        /\ res.in = marshal(res.orig, TRUE).data
        /\ res.len = Len(res.in))
           => res.ret = marshal(res.orig, TRUE).ret /\ self = res.orig

\* C8: unmarshal of a truncated buffer. For every buffer marshal wrote, of
\* either type, with or without the private key, and every len short of its
\* length, unmarshal returns -1 and reads no byte at index len or above.
C8_TruncatedRejected ==
    (/\ res.op = "unmarshal"
     /\ res.len < Len(res.in)
     /\ \E includePrivate \in BOOLEAN : res.in = marshal(res.orig, includePrivate).data)
        => res.ret = -1 /\ res.nread <= res.len

\* unmarshal has just rejected a buffer cut inside the private key.
C8_CutInPrivateKey ==
    /\ res.op = "unmarshal"
    /\ res.in = marshal(res.orig, TRUE).data
    /\ res.len = Len(res.in) - 1
    /\ res.ret = -1
    /\ res.nread <= res.len

\* The number of colon-delimited fields of a string.
FieldCount(str) == Cardinality({k \in 1..Len(str) : str[k] = ":"}) + 1

\* C9: fromString returns false on every string that has fewer than 3 or
\* more than 4 colon-delimited fields.
C9_FieldCountChecked ==
    res.op = "fromString" /\ FieldCount(res.in) \notin {3, 4} => ~res.ok

\* C10: sign, and ZT_Identity_sign, return 0 and write no signature when the
\* identity has no private key or the buffer is shorter than 96 bytes, for
\* both types; otherwise they return 96.
C10_SignReturn ==
    res.op \in {"sign", "ZT_Identity_sign"}
        => IF ~self.m_hasPrivate \/ res.len < ZT_SIGNATURE_BUFFER_SIZE
           THEN res.ret = 0 /\ res.out = <<>>
           ELSE res.ret = ZT_SIGNATURE_BUFFER_SIZE /\ Len(res.out) = ZT_SIGNATURE_BUFFER_SIZE

\* sign has just returned 0 on a C25519 identity with a private key and a
\* buffer one byte short: the C25519 case fell through the P384 case.
C10_FellThrough ==
    /\ res.op = "sign"
    /\ self.m_type = C25519
    /\ self.m_hasPrivate
    /\ res.len = ZT_SIGNATURE_BUFFER_SIZE - 1
    /\ res.ret = 0

\* A round of the loop has just taken its second branch (lines 110..119).
SecondBranch == frame.at = "loop" /\ frame.branch = 2

\* The word indices of ww and wp in the round just ended (i and j have
\* advanced by 8 since).
RoundWW == frame.i - 8

RoundWP == frame.j - 8

\* Every step of the function reads and writes words inside the array.
InsideArray ==
    /\ 0 <= frame.rd[1] /\ frame.rd[1] <= frame.rd[2] /\ frame.rd[2] <= PowWords
    /\ 0 <= frame.wr[1] /\ frame.wr[1] <= frame.wr[2] /\ frame.wr[2] <= PowWords

\* C11, as the code has it: after a round that takes the second branch and
\* writes the eight modulus results at w[i..i+8), the first 48 bytes of that
\* block are the SHA-384 of the 128 bytes w[i-8..i+8), the 64 bytes of the
\* block before first and the just-written 64 bytes after them, its last 16
\* bytes are still the seventh and eighth results, and every step, the last
\* round included, reads and writes only words inside the array.
C11_HashesBlockBeforeThenWritten ==
    /\ InsideArray
    /\ SecondBranch =>
           LET before == Slice(frame.w, 8 * RoundWP, 64)
               written == ModWords(before)
           IN /\ RoundWP = RoundWW - 8
              /\ frame.rd = <<RoundWW - 8, RoundWW + 8>>
              /\ Slice(frame.w, 8 * RoundWW, 48) = SHA384(before \o written)
              /\ Slice(frame.w, 8 * RoundWW + 48, 16) = Slice(written, 48, 16)

\* C11 as stated: after such a round the first 48 bytes of the block are the
\* SHA-384 of the 128 bytes w[i..i+16), the just-written 64 bytes first and
\* the 64 bytes that follow them after, and those words lie inside the array.
C11_HashesWrittenThenFollowing ==
    SecondBranch =>
        LET written == ModWords(Slice(frame.w, 8 * RoundWP, 64))
        IN /\ RoundWW + 16 <= PowWords
           /\ Slice(frame.w, 8 * RoundWW, 48)
                  = SHA384(written \o Slice(frame.w, 8 * (RoundWW + 8), 64))

\* The last round of the loop took the second branch.
C11_LastRoundSecondBranch == SecondBranch /\ frame.i = PowWords

\* generate(P384) starts an outer iteration (lines 169..171): on entry, or
\* after an accepted blob whose address is reserved.
OuterStart ==
    /\ pc' = "v1"
    /\ pc = "new" \/ (pc = "v1" /\ identityV1ProofOfWorkCriteria(self.m_pub))

\* generate(P384) goes round its inner loop (lines 173..176): the proof of
\* work on the current public blob has failed.
RejectedAttempt ==
    pc = "v1" /\ pc' = "v1" /\ ~identityV1ProofOfWorkCriteria(self.m_pub)

\* generate(P384) leaves both loops (lines 173, 181..185).
LoopExit == pc = "v1" /\ pc' = "ready"

\* The P-384 half of a P384 identity's blobs, where generate writes it.
P384Public(id) ==
    Slice(id.m_pub, 1 + ZT_C25519_COMBINED_PUBLIC_KEY_SIZE, ZT_ECC384_PUBLIC_KEY_SIZE)

P384Private(id) ==
    Slice(id.m_priv, ZT_C25519_COMBINED_PRIVATE_KEY_SIZE, ZT_ECC384_PRIVATE_KEY_SIZE)

\* The nonce goes up by one modulo 256 after a rejected attempt.
NonceAdvances == self'.m_pub[1] = (self.m_pub[1] + 1) % 256

\* The P-384 key pair is a newly generated one when the nonce has wrapped to
\* 0, and is the one it was when it has not.
P384RegeneratedOnWrap ==
    IF self'.m_pub[1] = 0
    THEN \E e \in ECCSeeds :
             /\ P384Public(self') = ECC384GenerateKey(e).pub
             /\ P384Private(self') = ECC384GenerateKey(e).priv
    ELSE /\ P384Public(self') = P384Public(self)
         /\ P384Private(self') = P384Private(self)

\* The C25519 key pair in the public blob is the one it was.
C25519PublicKept == C25519Public(self') = C25519Public(self)

\* The C25519 key pair in the private blob is the one it was.
C25519PrivateKept == C25519Private(self') = C25519Private(self)

\* C12: in generate(P384) every outer iteration starts with the nonce, byte 0
\* of the public blob, at 0; each rejected proof of work attempt adds 1 to
\* the nonce modulo 256; the P-384 key pair is generated anew exactly when
\* the nonce wraps to 0 and is left alone otherwise; the C25519 key pair of
\* the outer iteration stays as it is in the public and in the private blob
\* for as long as the inner loop runs; and the loops are left with the
\* public blob the proof of work was last evaluated on, which it accepted.
C12_NonceLoop ==
    [][ /\ (OuterStart => self'.m_pub[1] = 0)
        /\ (RejectedAttempt => /\ NonceAdvances
                               /\ P384RegeneratedOnWrap
                               /\ C25519PublicKept
                               /\ C25519PrivateKept)
        /\ (LoopExit => /\ self'.m_pub = self.m_pub
                        /\ identityV1ProofOfWorkCriteria(self'.m_pub)) ]_vars

====
